---- MODULE Spec2Model ----
(***************************************************************************)
(* Model of guibender's computer vision equalizer (CVEqualizer) and its    *)
(* parameter type (CVParameter), src/guibender/settings.py.                *)
(*                                                                         *)
(* Python values are records [t, n]: t is the Python type ("none", "bool", *)
(* "int", "float") and n the number in units of 10^-FracWidth, so that     *)
(* Python's numeric comparison across bool/int/float is comparison of n.   *)
(* Strings are sequences of one-character strings.  The module is Python 2  *)
(* code (__metaclass__, implicit relative imports): None is ordered below  *)
(* every number and the order of a dict's keys depends on the interpreter. *)
(* A parameter mapping is a sequence of [name, par] in insertion order and *)
(* is read through Names and DictGet; the order of its keys matters only   *)
(* to what a load of a written file has stored when it fails.              *)
(***************************************************************************)
EXTENDS Integers, Sequences, FiniteSets, TLC

VARIABLES
    cur,      \* CVEqualizer._current: category -> index into the catalog, or NoSel
    p,        \* CVEqualizer.p: category -> ordered mapping name -> CVParameter
    lib,      \* the cv2 library the process imported (fixed for a run)
    written,  \* content of the match file produced by to_match_file, or NoFile
    saved,    \* history: the registry (cur, p) that produced `written`
    edited,   \* a parameter value of the registry was assigned directly
    op,       \* the last operation called on the registry
    err,      \* its outcome: "ok" or the exception it raised
    synced,   \* the attributes the last sync_backend_to_params set on its backend
    hargs,    \* CVParameter test bench: constructor arguments
    hobj,     \* ... the constructed parameter (or the failure)
    htext,    \* ... the text under decoding
    hdec,     \* ... the decoded parameter (or the failure)
    hpc       \* ... position of the test bench

regvars == <<cur, p, lib, written, saved, edited, op, err, synced>>
hvars == <<hargs, hobj, htext, hdec, hpc>>
vars ==
    <<cur, p, lib, written, saved, edited, op, err, synced,
      hargs, hobj, htext, hdec, hpc>>

(***************************************************************************)
(* Bounds of the model.                                                    *)
(***************************************************************************)
\* integers offered to the CVParameter test bench are -MaxMag .. MaxMag
MaxMag == 2

(***************************************************************************)
(* Python values.                                                          *)
(***************************************************************************)
\* decimals kept for a float: the finest literal of the source is 0.0001
FracWidth == 4

RECURSIVE Pow10(_)
Pow10(w) == IF w = 0 THEN 1 ELSE 10 * Pow10(w - 1)

Scale == Pow10(FracWidth)

None == [t |-> "none", n |-> 0]
VBool(b) == [t |-> "bool", n |-> IF b THEN Scale ELSE 0]
VInt(i) == [t |-> "int", n |-> i * Scale]
\* a float given in units of 10^-FracWidth: VFloat(9000) is 0.9
VFloat(u) == [t |-> "float", n |-> u]

True == VBool(TRUE)
False == VBool(FALSE)

\* Python ==: None equals only None, numbers compare by value (True == 1 == 1.0)
PyEq(a, b) ==
    IF a.t = "none" \/ b.t = "none" THEN a.t = b.t ELSE a.n = b.n

(***************************************************************************)
(* Strings and the "%s" formatting of values.                              *)
(***************************************************************************)
DigitSeq == <<"0", "1", "2", "3", "4", "5", "6", "7", "8", "9">>
DigitChars == {DigitSeq[i] : i \in 1..Len(DigitSeq)}
DigitChar(d) == DigitSeq[d + 1]
DigitVal(ch) == CHOOSE d \in 0..9 : DigitSeq[d + 1] = ch

Abs(i) == IF i < 0 THEN -i ELSE i

RECURSIVE Digits(_)
Digits(k) ==
    IF k < 10 THEN <<DigitChar(k)>> ELSE Digits(k \div 10) \o <<DigitChar(k % 10)>>

RECURSIVE PadDigits(_, _)
PadDigits(k, w) ==
    IF w = 0 THEN <<>> ELSE PadDigits(k \div 10, w - 1) \o <<DigitChar(k % 10)>>

RECURSIVE StripZeros(_)
StripZeros(s) ==
    IF Len(s) > 1 /\ s[Len(s)] = "0" THEN StripZeros(SubSeq(s, 1, Len(s) - 1)) ELSE s

Sign(i) == IF i < 0 THEN <<"-">> ELSE <<>>

\* str(int)
IntStr(i) == Sign(i) \o Digits(Abs(i))

\* str(float) in the range where Python uses positional notation
FloatStr(u) ==
    Sign(u) \o Digits(Abs(u) \div Scale) \o <<".">>
        \o StripZeros(PadDigits(Abs(u) % Scale, FracWidth))

StrNone == <<"N", "o", "n", "e">>
StrTrue == <<"T", "r", "u", "e">>
StrFalse == <<"F", "a", "l", "s", "e">>

\* "%s" % v
Str(v) ==
    CASE v.t = "none" -> StrNone
      [] v.t = "bool" -> IF v.n # 0 THEN StrTrue ELSE StrFalse
      [] v.t = "int" -> IntStr(v.n \div Scale)
      [] OTHER -> FloatStr(v.n)

(***************************************************************************)
(* CVParameter.                                                            *)
(***************************************************************************)
NoPar == [value |-> None, min |-> None, max |-> None,
          delta |-> None, tolerance |-> None, fixed |-> None]

Made(par) == [err |-> "ok", par |-> par]
Raised(kind) == [err |-> kind, par |-> NoPar]

\* defaults of the constructor's signature
DefaultDelta == VFloat(Scale)
DefaultTolerance == VFloat(Scale \div 10)

\* a >= b and a <= b of Python 2: None is smaller than every number
PyGE(a, b) == IF a.t = "none" THEN b.t = "none" ELSE b.t = "none" \/ a.n >= b.n
PyLE(a, b) == IF a.t = "none" THEN TRUE ELSE b.t # "none" /\ a.n <= b.n

\* CVParameter.__init__ without the branch that forces delta and tolerance
\* of an int value
CVParameterIntUnforced(value, min_val, max_val, delta, tolerance, fixed) ==
    LET d == IF value.t = "bool" THEN VFloat(0) ELSE delta
        t == IF value.t = "bool" THEN VFloat(Scale) ELSE tolerance
    IN  IF min_val.t # "none" /\ ~PyGE(value, min_val) THEN Raised("AssertionError")
        ELSE IF max_val.t # "none" /\ ~PyLE(value, max_val) THEN Raised("AssertionError")
        ELSE Made([value |-> value, min |-> min_val, max |-> max_val,
                   delta |-> d, tolerance |-> t, fixed |-> fixed])

\* CVParameter.__init__ without the assertion on max_val
CVParameterNoMaxCheck(value, min_val, max_val, delta, tolerance, fixed) ==
    LET d == CASE value.t = "bool" -> VFloat(0)
               [] value.t = "int" -> VInt(1)
               [] OTHER -> delta
        t == CASE value.t = "bool" -> VFloat(Scale)
               [] value.t = "int" -> VFloat(9 * (Scale \div 10))
               [] OTHER -> tolerance
    IN  IF min_val.t # "none" /\ ~PyGE(value, min_val) THEN Raised("AssertionError")
        ELSE Made([value |-> value, min |-> min_val, max |-> max_val,
                   delta |-> d, tolerance |-> t, fixed |-> fixed])

\* CVParameter.__init__: the constructed parameter, or the exception raised
CVParameter(value, min_val, max_val, delta, tolerance, fixed) ==
    LET d == CASE value.t = "bool" -> VFloat(0)
               [] value.t = "int" -> VInt(1)
               [] OTHER -> delta
        t == CASE value.t = "bool" -> VFloat(Scale)
               [] value.t = "int" -> VFloat(9 * (Scale \div 10))
               [] OTHER -> tolerance
    IN  IF min_val.t # "none" /\ ~PyGE(value, min_val) THEN Raised("AssertionError")
        ELSE IF max_val.t # "none" /\ ~PyLE(value, max_val) THEN Raised("AssertionError")
        ELSE Made([value |-> value, min |-> min_val, max |-> max_val,
                   delta |-> d, tolerance |-> t, fixed |-> fixed])

\* CVParameter.__repr__: the six quoted fields of
\* <value='..' min='..' max='..' delta='..' tolerance='..' fixed='..'>
Repr(par) ==
    [value |-> Str(par.value), min |-> Str(par.min), max |-> Str(par.max),
     delta |-> Str(par.delta), tolerance |-> Str(par.tolerance),
     fixed |-> Str(par.fixed)]

(***************************************************************************)
(* CVParameter.from_string.                                                *)
(***************************************************************************)
AllIn(s, chars) == \A i \in 1..Len(s) : s[i] \in chars

WordChars ==
    DigitChars \cup {"_", "N", "o", "n", "e", "T", "r", "u", "F", "a", "l", "s", "x"}

\* the regular expression of from_string on the six fields of a text
ReMatch(raw) ==
    /\ Len(raw.value) >= 1
    /\ Len(raw.min) >= 1 /\ AllIn(raw.min, DigitChars \cup {".", "N", "o", "n", "e"})
    /\ Len(raw.max) >= 1 /\ AllIn(raw.max, DigitChars \cup {".", "N", "o", "n", "e"})
    /\ Len(raw.delta) >= 1 /\ AllIn(raw.delta, DigitChars \cup {"."})
    /\ Len(raw.tolerance) >= 1 /\ AllIn(raw.tolerance, DigitChars \cup {"."})
    /\ Len(raw.fixed) >= 1 /\ AllIn(raw.fixed, WordChars)

RECURSIVE ParseNat(_)
ParseNat(s) ==
    IF Len(s) = 0 THEN 0
    ELSE ParseNat(SubSeq(s, 1, Len(s) - 1)) * 10 + DigitVal(s[Len(s)])

\* what float() accepts among the strings of digits and dots
IsFloatSyntax(s) ==
    /\ AllIn(s, DigitChars \cup {"."})
    /\ Cardinality({i \in 1..Len(s) : s[i] = "."}) <= 1
    /\ \E i \in 1..Len(s) : s[i] \in DigitChars

\* float(s) for s of float syntax
ParseFloat(s) ==
    LET dots == {i \in 1..Len(s) : s[i] = "."}
        k == IF dots = {} THEN Len(s) + 1 ELSE CHOOSE i \in dots : TRUE
        frac == SubSeq(s, k + 1, Len(s))
        kept == SubSeq(frac \o PadDigits(0, FracWidth), 1, FracWidth)
    IN  ParseNat(SubSeq(s, 1, k - 1)) * Scale + ParseNat(kept)

\* the conversion of one matched group; Bad stands for the ValueError
Bad == [t |-> "bad", n |-> 0]

ConvertArg(arg) ==
    IF arg = StrNone THEN None
    ELSE IF arg = StrTrue THEN True
    ELSE IF arg = StrFalse THEN False
    ELSE IF AllIn(arg, DigitChars) THEN VInt(ParseNat(arg))
    ELSE IF arg[1] \in DigitChars \cup {"."}
    THEN IF IsFloatSyntax(arg) THEN VFloat(ParseFloat(arg)) ELSE Bad
    ELSE Bad

\* the end of from_string on the converted groups a: CVParameter(*args),
\* unless a conversion has raised
FromArgs(a) ==
    IF \E f \in DOMAIN a : a[f] = Bad THEN Raised("ValueError")
    ELSE CVParameter(a.value, a.min, a.max, a.delta, a.tolerance, a.fixed)

\* CVParameter.from_string: the decoded parameter, or the exception raised
from_string(raw) ==
    IF ~ReMatch(raw) THEN Raised("AttributeError")
    ELSE FromArgs([f \in DOMAIN raw |-> ConvertArg(raw[f])])

(***************************************************************************)
(* Test bench of CVParameter: construct, encode, decode.                   *)
(***************************************************************************)
HValues ==
    {None, True, False} \cup {VInt(i) : i \in -MaxMag..MaxMag}
        \cup {VFloat(u) : u \in {-(Scale \div 2), 0, Scale \div 2, Scale + Scale \div 2}}
HMins == {None, VInt(0), VFloat(-Scale)}
HMaxs == {None, VInt(1), VFloat(Scale + Scale \div 2)}
HDeltas == {DefaultDelta, VFloat(Scale \div 10), VInt(100)}
HTolerances == {DefaultTolerance, VFloat(Scale \div 2)}

HArgs ==
    [value : HValues, min : HMins, max : HMaxs,
     delta : HDeltas, tolerance : HTolerances, fixed : {True, False}]

NoText == [value |-> <<>>, min |-> <<>>, max |-> <<>>,
           delta |-> <<>>, tolerance |-> <<>>, fixed |-> <<>>]

\* CVParameter(value, min_val, max_val, delta, tolerance, fixed)
HConstruct ==
    /\ hpc = "args"
    /\ hobj' = CVParameter(hargs.value, hargs.min, hargs.max,
                           hargs.delta, hargs.tolerance, hargs.fixed)
    /\ hpc' = "built"
    /\ UNCHANGED <<hargs, htext, hdec>>
    /\ UNCHANGED regvars

\* repr(p) of the constructed parameter
HRepr ==
    /\ hpc = "built"
    /\ hobj.err = "ok"
    /\ htext' = Repr(hobj.par)
    /\ hpc' = "encoded"
    /\ UNCHANGED <<hargs, hobj, hdec>>
    /\ UNCHANGED regvars

\* CVParameter.from_string(repr(p))
HFromString ==
    /\ hpc = "encoded"
    /\ hdec' = from_string(htext)
    /\ hpc' = "decoded"
    /\ UNCHANGED <<hargs, hobj, htext>>
    /\ UNCHANGED regvars

\* CVParameter.from_string on a stored text that holds the six arguments as
\* they were written by hand (no constructor has normalised them)
HFromStored ==
    /\ hpc = "args"
    /\ htext' = Repr(hargs)
    /\ hdec' = from_string(Repr(hargs))
    /\ hpc' = "decodedstored"
    /\ UNCHANGED <<hargs, hobj>>
    /\ UNCHANGED regvars

NextParam == HConstruct \/ HRepr \/ HFromString \/ HFromStored

(***************************************************************************)
(* CVEqualizer: catalog, registry and the cv2 library it introspects.      *)
(***************************************************************************)
\* the keys of self.p, in the order of the dict display that builds it
CatOrder == <<"find", "tmatch", "fextract", "fmatch", "fdetect">>
Categories == {CatOrder[i] : i \in 1..Len(CatOrder)}

\* the orders in which self.p.keys() lists them: by the slots of the string
\* hashes (CPython 2.7), or by insertion (PyPy)
KeyOrders ==
    {<<"fdetect", "tmatch", "fmatch", "find", "fextract">>, CatOrder}

full_names ==
    [find |-> "find_methods", tmatch |-> "template_matchers",
     fdetect |-> "feature_detectors", fextract |-> "feature_extractors",
     fmatch |-> "feature_matchers"]

algorithms ==
    [find_methods |-> <<"autopy", "template", "feature", "hybrid">>,
     template_matchers |-> <<"sqdiff", "ccorr", "ccoeff", "sqdiff_normed",
                             "ccorr_normed", "ccoeff_normed">>,
     feature_matchers |-> <<"BruteForce", "BruteForce-L1", "BruteForce-Hamming",
                            "BruteForce-Hamming(2)">>,
     feature_detectors |-> <<"ORB", "BRISK", "KAZE", "AKAZE", "MSER",
                             "AgastFeatureDetector", "FastFeatureDetector",
                             "GFTTDetector", "SimpleBlobDetector", "oldSURF">>,
     feature_extractors |-> <<"ORB", "BRISK", "KAZE", "AKAZE">>]

Catalog(c) == algorithms[full_names[c]]
InCatalog(c, value) == \E i \in 1..Len(Catalog(c)) : Catalog(c)[i] = value
\* tuple.index(value), counted from 0
IndexOf(c, value) == (CHOOSE i \in 1..Len(Catalog(c)) : Catalog(c)[i] = value) - 1

\* a category without an entry in self._current
NoSel == -1

\* defaults of the Settings class used by the constructor
SettingsDefaults ==
    [tmatch |-> "ccoeff_normed", fdetect |-> "ORB",
     fextract |-> "ORB", fmatch |-> "BruteForce-Hamming"]

\* a float literal num/den of the source
Dec(num, den) == VFloat((num * Scale) \div den)

\* ordered dictionaries name -> parameter
Names(m) == {m[i].name : i \in 1..Len(m)}
DictGet(m, name) == m[CHOOSE i \in 1..Len(m) : m[i].name = name].par
DictSet(m, name, par) ==
    IF name \in Names(m)
    THEN [i \in 1..Len(m) |->
            IF m[i].name = name THEN [name |-> name, par |-> par] ELSE m[i]]
    ELSE Append(m, [name |-> name, par |-> par])

(***************************************************************************)
(* The cv2 library: which <name>_create functions exist and what dir() of  *)
(* the created object lists, in dir()'s sorted order.  An attribute is     *)
(* [get: it starts with "get", param: its name with "get" removed, val:    *)
(* what the getter returns, setter: a matching set<param> exists].         *)
(***************************************************************************)
Other == [t |-> "other", n |-> 0]
Attr(get, param, val, setter) ==
    [get |-> get, param |-> param, val |-> val, setter |-> setter]

Libs == {"full", "partial"}

\* getattr(cv2, "%s_create" % new) succeeds
HasCreate(l, new) == l = "full" \/ new \notin {"KAZE", "AKAZE"}

\* dir(new_backend) of the object created for algorithm `new`
Dir(l, new) ==
    CASE new = "ORB" ->
           <<Attr(FALSE, "compute", Other, FALSE),
             Attr(TRUE, "DefaultName", Other, FALSE),
             Attr(TRUE, "WTA_K", VInt(2), TRUE),
             Attr(TRUE, "nFeatures", VInt(500), TRUE)>>
      [] new = "BRISK" ->
           <<Attr(TRUE, "Octaves", VInt(3), FALSE),
             Attr(TRUE, "scaleFactor",
                  IF l = "full" THEN Dec(12, 10) ELSE Dec(1, 1), TRUE),
             Attr(TRUE, "bytes", VInt(64), TRUE)>>
      [] new = "KAZE" ->
           <<Attr(TRUE, "Extended", False, TRUE),
             Attr(TRUE, "Threshold", Dec(1, 1000), TRUE)>>
      [] OTHER -> <<Attr(TRUE, "DefaultName", Other, FALSE)>>

(***************************************************************************)
(* CVEqualizer._new_params.                                                *)
(***************************************************************************)
\* a constructor call of the source with literal arguments
Par(value, min_val, max_val, delta, tolerance) ==
    CVParameter(value, min_val, max_val, delta, tolerance, True).par

\* the parameter generated for one discovered attribute (lines 754-763)
Discovered(c, param, val) ==
    IF c \in {"fdetect", "fextract"} /\ param = "firstLevel"
    THEN CVParameter(val, VInt(0), VInt(100), DefaultDelta, DefaultTolerance, True)
    ELSE IF c \in {"fdetect", "fextract"} /\ param = "nFeatures"
    THEN CVParameter(val, None, None, VInt(100), DefaultTolerance, True)
    ELSE IF c \in {"fdetect", "fextract"} /\ param = "WTA_K"
    THEN CVParameter(val, VInt(2), VInt(4), DefaultDelta, DefaultTolerance, True)
    ELSE IF c \in {"fdetect", "fextract"} /\ param = "scaleFactor"
    THEN CVParameter(val, Dec(101, 100), Dec(2, 1), DefaultDelta, DefaultTolerance, True)
    ELSE CVParameter(val, None, None, DefaultDelta, DefaultTolerance, True)

\* self.p[category][name] = r, r being what the constructor call gave: acc is
\* [err, m], the mapping so far and the exception raised so far
Put(acc, name, r) ==
    IF r.err # "ok" THEN [err |-> r.err, m |-> acc.m]
    ELSE [err |-> "ok", m |-> DictSet(acc.m, name, r.par)]

\* one turn of the loop over dir(new_backend), on attribute a
ExamineOne(c, a, acc) ==
    IF acc.err # "ok" \/ ~a.get \/ a.val.t = "other" THEN acc
    ELSE Put(acc, a.param, Discovered(c, a.param, a.val))

\* the loop over dir(new_backend) from attribute i on
RECURSIVE Examine(_, _, _, _)
Examine(c, attrs, i, acc) ==
    IF i > Len(attrs) THEN acc
    ELSE Examine(c, attrs, i + 1, ExamineOne(c, attrs[i], acc))

\* creation of the cv2 object, then its examination; m is self.p[category]
Introspect(l, c, new, m) ==
    IF ~HasCreate(l, new) THEN [err |-> "AttributeError", m |-> m]
    ELSE Examine(c, Dir(l, new), 1, [err |-> "ok", m |-> m])

\* an entry of a parameter mapping
Entry(name, par) == [name |-> name, par |-> par]

\* CVParameter(v, 1, None)
Big(v) == Par(VInt(v), VInt(1), None, DefaultDelta, DefaultTolerance)

\* the find parameters with the tests for nocolor and ransacReprojThreshold
\* exchanged
FindParamsSwapped(new) ==
    <<Entry("similarity", Par(Dec(9, 10), Dec(0, 1), Dec(1, 1), Dec(1, 10), Dec(1, 10)))>>
    \o (IF new \in {"template", "hybrid"}
        THEN <<Entry("ransacReprojThreshold",
                     Par(Dec(0, 1), Dec(0, 1), Dec(200, 1), Dec(10, 1), Dec(1, 1)))>>
        ELSE <<>>)
    \o (IF new \in {"feature", "hybrid"}
        THEN <<Entry("nocolor", Par(False, None, None, DefaultDelta, DefaultTolerance))>>
        ELSE <<>>)
    \o (IF new = "hybrid"
        THEN <<Entry("front_similarity",
                     Par(Dec(8, 10), Dec(0, 1), Dec(1, 1), Dec(1, 10), Dec(1, 10)))>>
        ELSE <<>>)

FindParams(new) ==
    <<Entry("similarity", Par(Dec(9, 10), Dec(0, 1), Dec(1, 1), Dec(1, 10), Dec(1, 10)))>>
    \o (IF new \in {"feature", "hybrid"}
        THEN <<Entry("ransacReprojThreshold",
                     Par(Dec(0, 1), Dec(0, 1), Dec(200, 1), Dec(10, 1), Dec(1, 1)))>>
        ELSE <<>>)
    \o (IF new \in {"template", "hybrid"}
        THEN <<Entry("nocolor", Par(False, None, None, DefaultDelta, DefaultTolerance))>>
        ELSE <<>>)
    \o (IF new = "hybrid"
        THEN <<Entry("front_similarity",
                     Par(Dec(8, 10), Dec(0, 1), Dec(1, 1), Dec(1, 10), Dec(1, 10)))>>
        ELSE IF new = "2to1hybrid"
        THEN <<Entry("x", Big(1000)), Entry("y", Big(1000)),
               Entry("dx", Big(100)), Entry("dy", Big(100))>>
        ELSE <<>>)

ZoomParams ==
    <<Entry("nzoom", Par(Dec(4, 1), Dec(1, 1), Dec(10, 1), Dec(1, 1), Dec(1, 1))),
      Entry("hzoom", Par(Dec(4, 1), Dec(1, 1), Dec(10, 1), Dec(1, 1), Dec(1, 1)))>>

\* a generation that leaves the two test toggles out
FmatchParamsBare(new) ==
    <<Entry("ratioThreshold",
            Par(Dec(65, 100), Dec(0, 1), Dec(1, 1), Dec(1, 10), DefaultTolerance))>>

FmatchParams(new) ==
    IF new = "in-house-region"
    THEN <<Entry("refinements", Big(50)),
           Entry("recalc_interval", Big(10)),
           Entry("variants_k", Big(100)),
           Entry("variants_ratio",
                 Par(Dec(33, 100), Dec(1, 10000), Dec(1, 1),
                     DefaultDelta, DefaultTolerance))>>
    ELSE <<Entry("ratioThreshold",
                 Par(Dec(65, 100), Dec(0, 1), Dec(1, 1), Dec(1, 10), DefaultTolerance)),
           Entry("ratioTest", Par(False, None, None, DefaultDelta, DefaultTolerance)),
           Entry("symmetryTest", Par(False, None, None, DefaultDelta, DefaultTolerance))>>

\* _new_params(category, new): [err, m] with m what self.p[category] is when
\* the method returns or raises
NewParams(l, c, new) ==
    CASE c = "find" -> [err |-> "ok", m |-> FindParams(new)]
      [] c = "tmatch" -> [err |-> "ok", m |-> <<>>]
      [] c = "fdetect" ->
           IF new = "oldSURF"
           THEN [err |-> "ok",
                 m |-> DictSet(ZoomParams, "oldSURFdetect",
                               Par(VInt(85), None, None, DefaultDelta, DefaultTolerance))]
           ELSE Introspect(l, c, new, ZoomParams)
      [] c = "fextract" -> Introspect(l, c, new, <<>>)
      [] OTHER -> [err |-> "ok", m |-> FmatchParams(new)]

(***************************************************************************)
(* CVEqualizer operations on a registry value st = [cur, p]; each gives    *)
(* the registry when the method returns or raises, and err.                *)
(***************************************************************************)
Reg == [cur |-> cur, p |-> p]
Outcome(st, e) == [cur |-> st.cur, p |-> st.p, err |-> e]

\* the exception of get_backend(category), if any
GetBackendErr(st, c) ==
    IF c \notin Categories THEN "KeyError"
    ELSE IF st.cur[c] = NoSel THEN "KeyError"
    ELSE "ok"

\* get_backend(category) where it returns
BackendName(st, c) == Catalog(c)[st.cur[c] + 1]

\* the new parameters put on top of the mapping that is there (no reset)
RECURSIVE Overlay(_, _, _)
Overlay(m, new, i) ==
    IF i > Len(new) THEN m ELSE Overlay(DictSet(m, new[i].name, new[i].par), new, i + 1)

\* a _new_params that does not start from an empty mapping
SwitchedKeeps(st, c, value, r) ==
    [cur |-> IF r.err = "ok" THEN [st.cur EXCEPT ![c] = IndexOf(c, value)] ELSE st.cur,
     p |-> [st.p EXCEPT ![c] = Overlay(st.p[c], r.m, 1)],
     err |-> r.err]

\* a _new_params that empties the mapping of every category
SwitchedResetsAll(st, c, value, r) ==
    [cur |-> IF r.err = "ok" THEN [st.cur EXCEPT ![c] = IndexOf(c, value)] ELSE st.cur,
     p |-> [d \in Categories |-> IF d = c THEN r.m ELSE <<>>],
     err |-> r.err]

\* the registry once _new_params(category, value) has left r = [err, m]:
\* self.p[category] is m, and self._current[category] is set if it returned
Switched(st, c, value, r) ==
    [cur |-> IF r.err = "ok" THEN [st.cur EXCEPT ![c] = IndexOf(c, value)] ELSE st.cur,
     p |-> [st.p EXCEPT ![c] = r.m],
     err |-> r.err]

\* set_backend that empties the mapping before it checks the catalog
SetBackendClearsFirst(l, st, c, value) ==
    IF c \notin Categories THEN Outcome(st, "KeyError")
    ELSE IF ~InCatalog(c, value)
    THEN Outcome([st EXCEPT !.p[c] = <<>>], "ImageFinderMethodError")
    ELSE Switched(st, c, value, NewParams(l, c, value))

\* set_backend(category, value)
SetBackendOn(l, st, c, value) ==
    IF c \notin Categories THEN Outcome(st, "KeyError")
    ELSE IF ~InCatalog(c, value) THEN Outcome(st, "ImageFinderMethodError")
    ELSE Switched(st, c, value, NewParams(l, c, value))

\* the order of the if statements of configure_backend
ConfOrder == <<"find", "tmatch", "fdetect", "fextract", "fmatch">>
\* an argument left at None
NoName == "None"

\* one if statement of configure_backend; acc is the registry so far with
\* the exception raised so far
ConfigureOne(l, acc, c, name) ==
    IF acc.err # "ok" \/ name = NoName THEN acc ELSE SetBackendOn(l, acc, c, name)

\* configure_backend from its i-th if statement on
RECURSIVE ConfigureOn(_, _, _, _)
ConfigureOn(l, acc, args, i) ==
    IF i > Len(ConfOrder) THEN acc
    ELSE ConfigureOn(l, ConfigureOne(l, acc, ConfOrder[i], args[ConfOrder[i]]), args, i + 1)

\* CVEqualizer.__init__(backend)
EmptyReg ==
    [cur |-> [c \in Categories |-> NoSel], p |-> [c \in Categories |-> <<>>]]

Constructed(l, backend) ==
    IF backend = NoName THEN Outcome(EmptyReg, "ok")
    ELSE ConfigureOn(l, Outcome(EmptyReg, "ok"),
                     [c \in Categories |->
                        IF c = "find" THEN backend ELSE SettingsDefaults[c]], 1)

\* `param == "bytes"` of can_calibrate, param being a value of self.p[category]:
\* CVParameter defines no __eq__, so an instance never equals a str
ParamEqStr(par, str) == FALSE

\* can_calibrate(mark, category)
CanCalibrateOn(st, mark, c) ==
    IF c \notin Categories THEN Outcome(st, "ImageFinderMethodError")
    ELSE Outcome(
           [st EXCEPT !.p[c] =
              [i \in 1..Len(st.p[c]) |->
                 [st.p[c][i] EXCEPT !.par.fixed =
                    IF c = "fextract" /\ ParamEqStr(st.p[c][i].par, "bytes")
                    THEN True ELSE VBool(~mark)]]],
           "ok")

(***************************************************************************)
(* Match files.  A file is [exists, sections]; a section is [name,         *)
(* backend, opts] and opts the sequence of its other keys [key, text], in  *)
(* file order.                                                             *)
(***************************************************************************)
NoFile == [exists |-> FALSE, sections |-> <<>>]
File(sections) == [exists |-> TRUE, sections |-> sections]
Section(name, backend, opts) == [name |-> name, backend |-> backend, opts |-> opts]
Opt(key, text) == [key |-> key, text |-> text]
\* a section without the key `backend`
NoOption == "<no backend key>"

HasSection(f, c) == \E i \in 1..Len(f.sections) : f.sections[i].name = c
SectionOf(f, c) == f.sections[CHOOSE i \in 1..Len(f.sections) : f.sections[i].name = c]

\* a loop over the options that skips a text from_string rejects
LoadOptSkips(acc, opt) ==
    IF acc.err # "ok" \/ from_string(opt.text).err # "ok" THEN acc
    ELSE Put(acc, opt.key, from_string(opt.text))

\* one turn of the loop over parser.options(category); acc is [err, m]
LoadOpt(acc, opt) ==
    IF acc.err # "ok" THEN acc ELSE Put(acc, opt.key, from_string(opt.text))

\* the loop over parser.options(category) from option i on
RECURSIVE LoadOpts(_, _, _)
LoadOpts(acc, opts, i) ==
    IF i > Len(opts) THEN acc ELSE LoadOpts(LoadOpt(acc, opts[i]), opts, i + 1)

\* the registry with r = [err, m] of the loop over the options as self.p[c]
Stored(st, c, r) ==
    [cur |-> st.cur, p |-> [st.p EXCEPT ![c] = r.m], err |-> r.err]

\* the options of section sec loaded into st1, the registry the set_backend of
\* the section has left
LoadInto(c, sec, st1) ==
    IF st1.err # "ok" THEN st1
    ELSE Stored(st1, c, LoadOpts([err |-> "ok", m |-> st1.p[c]], sec.opts, 1))

\* a loop body that calls set_backend whatever the stored backend is
LoadSectionAlwaysResets(l, st, c, sec) ==
    IF sec.backend = NoOption THEN Outcome(st, "NoOptionError")
    ELSE IF GetBackendErr(st, c) # "ok" THEN Outcome(st, "KeyError")
    ELSE LoadInto(c, sec, SetBackendOn(l, st, c, sec.backend))

\* a loop body that takes a missing selection for a differing backend
LoadSectionSelects(l, st, c, sec) ==
    IF sec.backend = NoOption THEN Outcome(st, "NoOptionError")
    ELSE LoadInto(c, sec, IF GetBackendErr(st, c) # "ok" \/ sec.backend # BackendName(st, c)
                          THEN SetBackendOn(l, st, c, sec.backend)
                          ELSE Outcome(st, "ok"))

\* the body of the loop over self.p.keys() for a category c that has the
\* section sec
LoadSection(l, st, c, sec) ==
    IF sec.backend = NoOption THEN Outcome(st, "NoOptionError")
    ELSE IF GetBackendErr(st, c) # "ok" THEN Outcome(st, "KeyError")
    ELSE LoadInto(c, sec, IF sec.backend # BackendName(st, c)
                          THEN SetBackendOn(l, st, c, sec.backend)
                          ELSE Outcome(st, "ok"))

\* one turn of the loop over self.p.keys(); acc is the registry so far with
\* the exception raised so far
LoadCat(l, acc, f, c) ==
    IF acc.err # "ok" \/ ~HasSection(f, c) THEN acc
    ELSE LoadSection(l, acc, c, SectionOf(f, c))

\* the loop over self.p.keys() of from_match_file from the i-th key on
RECURSIVE LoadCats(_, _, _, _, _)
LoadCats(l, acc, f, keys, i) ==
    IF i > Len(keys) THEN acc
    ELSE LoadCats(l, LoadCat(l, acc, f, keys[i]), f, keys, i + 1)

\* from_match_file without the test of what parser.read returned
FromMatchFileUnchecked(l, st, f, keys) ==
    LoadCats(l, Outcome(st, "ok"), f, keys, 1)

\* a load that puts the registry back as it was when the loop raises
FromMatchFileRestores(l, st, f, keys) ==
    IF ~f.exists THEN Outcome(st, "IOError")
    ELSE IF LoadCats(l, Outcome(st, "ok"), f, keys, 1).err = "ok"
    THEN LoadCats(l, Outcome(st, "ok"), f, keys, 1)
    ELSE Outcome(st, LoadCats(l, Outcome(st, "ok"), f, keys, 1).err)

\* from_match_file on a file content, self.p.keys() listing the keys as `keys`
FromMatchFileOn(l, st, f, keys) ==
    IF ~f.exists THEN Outcome(st, "IOError")
    ELSE LoadCats(l, Outcome(st, "ok"), f, keys, 1)

\* the parser content built by to_match_file (the parser finds a section by
\* its name, so the order of the sections in the file is immaterial)
ToFile(st) ==
    File([i \in 1..Len(CatOrder) |->
            Section(CatOrder[i], BackendName(st, CatOrder[i]),
                    [k \in 1..Len(st.p[CatOrder[i]]) |->
                       Opt(st.p[CatOrder[i]][k].name,
                           Repr(st.p[CatOrder[i]][k].par))])])

\* a stored text with the six fields as given
Text(value, min_val, max_val, delta, tolerance, fixed) ==
    Repr([value |-> value, min |-> min_val, max |-> max_val,
          delta |-> delta, tolerance |-> tolerance, fixed |-> fixed])

\* a stored text the regular expression of from_string does not match
Malformed ==
    [value |-> <<"x">>, min |-> <<>>, max |-> <<>>,
     delta |-> <<>>, tolerance |-> <<>>, fixed |-> <<>>]

\* the match files found on disk
FileNames == {"tuned", "broken", "missing"}
\* match files with a malformed text, with a backend outside the catalog, and
\* with sections that switch or keep the selection
LoadNames == FileNames \cup {"garbled", "alien", "switch"}

EnvFile(fname) ==
    CASE fname = "tuned" ->
           File(<<Section("find", "hybrid",
                          <<Opt("similarity",
                                Text(Dec(1, 2), Dec(0, 1), Dec(1, 1), Dec(1, 10),
                                     Dec(1, 10), False)),
                            Opt("contrast",
                                Text(VInt(3), None, None, VInt(1), Dec(9, 10), True))>>),
                  Section("fextract", "ORB",
                          <<Opt("bytes",
                                Text(VInt(32), None, None, VInt(1), Dec(9, 10), True))>>)>>)
      [] fname = "broken" ->
           File(<<Section("tmatch", "sqdiff", <<>>),
                  Section("fmatch", "BruteForce",
                          <<Opt("ratioTest",
                                Text(True, None, None, Dec(0, 1), Dec(1, 1), False)),
                            Opt("ratioThreshold",
                                Text(Dec(15, 10), Dec(0, 1), Dec(1, 1), Dec(1, 10),
                                     Dec(1, 10), True))>>)>>)
      [] fname = "garbled" ->
           File(<<Section("general", NoOption, <<>>),
                  Section("find", "template",
                          <<Opt("similarity",
                                Text(Dec(1, 2), Dec(0, 1), Dec(1, 1), Dec(1, 10),
                                     Dec(1, 10), True)),
                            Opt("nocolor", Malformed),
                            Opt("extra",
                                Text(VInt(7), None, None, VInt(1), Dec(9, 10), True))>>),
                  Section("fextract", "BRISK", <<>>)>>)
      [] fname = "alien" ->
           File(<<Section("tmatch", "sqdiff", <<>>),
                  Section("fmatch", "in-house-raw",
                          <<Opt("ratioTest",
                                Text(True, None, None, Dec(0, 1), Dec(1, 1), True))>>)>>)
      [] fname = "switch" ->
           File(<<Section("general", NoOption, <<>>),
                  Section("find", "hybrid",
                          <<Opt("similarity",
                                Text(Dec(7, 10), Dec(0, 1), Dec(1, 1), Dec(1, 10),
                                     Dec(1, 10), True))>>),
                  Section("fmatch", "BruteForce",
                          <<Opt("ratioThreshold",
                                Text(Dec(1, 2), Dec(0, 1), Dec(1, 1), Dec(1, 10),
                                     Dec(1, 10), False)),
                            Opt("crossCheck",
                                Text(True, None, None, Dec(0, 1), Dec(1, 1), True))>>)>>)
      [] OTHER -> NoFile

(***************************************************************************)
(* sync_backend_to_params.                                                 *)
(***************************************************************************)
\* a loop that calls set<param> without looking for it first
SyncWritesUnguarded(m, attrs) ==
    LET hit(a) == a.get /\ a.param \in Names(m)
        RECURSIVE walk(_)
        walk(i) ==
            IF i > Len(attrs) THEN <<>>
            ELSE IF hit(attrs[i])
            THEN <<[name |-> attrs[i].param,
                    val |-> DictGet(m, attrs[i].param).value]>> \o walk(i + 1)
            ELSE walk(i + 1)
    IN  walk(1)

\* the set_param(val) calls of the loop over dir(backend), in order
SyncWrites(m, attrs) ==
    LET hit(a) == a.get /\ a.param \in Names(m) /\ a.setter
        RECURSIVE walk(_)
        walk(i) ==
            IF i > Len(attrs) THEN <<>>
            ELSE IF hit(attrs[i])
            THEN <<[name |-> attrs[i].param,
                    val |-> DictGet(m, attrs[i].param).value]>> \o walk(i + 1)
            ELSE walk(i + 1)
    IN  walk(1)

\* [err, writes] of sync_backend_to_params(backend, category), backend an
\* object whose dir() is attrs
SyncOn(st, c, attrs) ==
    IF c \in {"find", "tmatch"} THEN [err |-> "ok", writes |-> <<>>]
    ELSE IF c \in {"fdetect", "fmatch"} /\ GetBackendErr(st, c) # "ok"
    THEN [err |-> "KeyError", writes |-> <<>>]
    ELSE IF c = "fdetect" /\ BackendName(st, c) = "oldSURF"
    THEN [err |-> "ok", writes |-> <<>>]
    ELSE IF c = "fmatch" THEN [err |-> "ok", writes |-> <<>>]
    ELSE IF c \notin Categories
    THEN IF \E i \in 1..Len(attrs) : attrs[i].get
         THEN [err |-> "KeyError", writes |-> <<>>]
         ELSE [err |-> "ok", writes |-> <<>>]
    ELSE [err |-> "ok", writes |-> SyncWrites(st.p[c], attrs)]

(***************************************************************************)
(* Inputs offered to the operations.                                       *)
(***************************************************************************)
CatInputs == {"find", "fextract", "fmatch"}

AlgInputs(c) ==
    CASE c = "find" -> {"hybrid", "template", "bogus"}
      [] c = "fextract" -> {"BRISK", "KAZE"}
      [] OTHER -> {"in-house-raw"}

\* an argument list of configure_backend
ConfArgs(find_image, template_match, feature_detect, feature_extract, feature_match) ==
    [find |-> find_image, tmatch |-> template_match, fdetect |-> feature_detect,
     fextract |-> feature_extract, fmatch |-> feature_match]

ConfInputs ==
    {ConfArgs("template", NoName, NoName, NoName, NoName),
     ConfArgs(NoName, "sqdiff", "oldSURF", NoName, NoName),
     ConfArgs("template", "bogus", NoName, NoName, NoName),
     ConfArgs(NoName, NoName, "oldSURF", NoName, "in-house-raw")}

CalInputs == {"fextract"}

\* the parameters a client of the registry writes, and the values it writes
EditTargets == {<<"find", "similarity">>, <<"fextract", "nFeatures">>}
EditValues == {Dec(1, 2), VInt(-1)}

\* the backend objects handed to sync_backend_to_params
SyncObjects == {"ORB", "BRISK"}
SyncCats == {"find", "tmatch", "fmatch", "fextract", "fdetect"}

InitBackends == {"hybrid"}

(***************************************************************************)
(* Actions.                                                                *)
(***************************************************************************)
\* the registry and the outcome a call leaves
Result(r) ==
    /\ cur' = r.cur
    /\ p' = r.p
    /\ err' = r.err
    /\ synced' = <<>>

set_backend(c, value) ==
    /\ op' = "set_backend"
    /\ Result(SetBackendOn(lib, Reg, c, value))
    /\ UNCHANGED <<lib, written, saved, edited>>
    /\ UNCHANGED hvars

configure_backend(args) ==
    /\ op' = "configure_backend"
    /\ Result(ConfigureOn(lib, Outcome(Reg, "ok"), args, 1))
    /\ UNCHANGED <<lib, written, saved, edited>>
    /\ UNCHANGED hvars

\* get_backend(category): the call raises or returns, the registry stays
get_backend(c) ==
    /\ op' = "get_backend"
    /\ err' = GetBackendErr(Reg, c)
    /\ synced' = <<>>
    /\ UNCHANGED <<cur, p, lib, written, saved, edited>>
    /\ UNCHANGED hvars

can_calibrate(mark, c) ==
    /\ op' = "can_calibrate"
    /\ Result(CanCalibrateOn(Reg, mark, c))
    /\ UNCHANGED <<lib, written, saved, edited>>
    /\ UNCHANGED hvars

\* from_match_file(fname); "out" names the file to_match_file writes
from_match_file(fname) ==
    /\ op' = "from_match_file"
    /\ \E keys \in KeyOrders :
          Result(FromMatchFileOn(lib, Reg,
                                 IF fname = "out" THEN written ELSE EnvFile(fname),
                                 keys))
    /\ UNCHANGED <<lib, written, saved, edited>>
    /\ UNCHANGED hvars

sync_backend_to_params(backend, c) ==
    LET r == SyncOn(Reg, c, Dir(lib, backend))
    IN  /\ synced' = r.writes
        /\ err' = r.err
        /\ op' = "sync_backend_to_params"
        /\ UNCHANGED <<cur, p, lib, written, saved, edited>>
        /\ UNCHANGED hvars

\* p[c][i].value = v, for v of the value's type and inside its range
EditAt(c, i, v) ==
    /\ v.t = p[c][i].par.value.t
    /\ v # p[c][i].par.value
    /\ p[c][i].par.min.t = "none" \/ v.n >= p[c][i].par.min.n
    /\ p[c][i].par.max.t = "none" \/ v.n <= p[c][i].par.max.n
    /\ p' = [p EXCEPT ![c][i].par.value = v]

\* a client of the registry assigns p[c][name].value
EditValue(c, name, v) ==
    /\ name \in Names(p[c])
    /\ LET i == CHOOSE k \in 1..Len(p[c]) : p[c][k].name = name
       IN  EditAt(c, i, v)
    /\ edited' = TRUE
    /\ op' = "edit"
    /\ err' = "ok"
    /\ synced' = <<>>
    /\ UNCHANGED <<cur, lib, written, saved>>
    /\ UNCHANGED hvars

HIdle ==
    /\ hargs = NoPar
    /\ hobj = Raised("none")
    /\ htext = NoText
    /\ hdec = Raised("none")
    /\ hpc = "idle"

NoReg == [cur |-> EmptyReg.cur, p |-> EmptyReg.p]

Init ==
    /\ lib \in Libs
    /\ \E b \in InitBackends : \E r \in {Constructed(lib, b)} :
         /\ r.err = "ok"
         /\ cur = r.cur
         /\ p = r.p
    /\ written = NoFile
    /\ saved = NoReg
    /\ edited = FALSE
    /\ op = "init"
    /\ err = "ok"
    /\ synced = <<>>
    /\ HIdle

Next ==
    \/ \E c \in CatInputs : \E value \in AlgInputs(c) : set_backend(c, value)
    \/ \E args \in ConfInputs : configure_backend(args)
    \/ \E mark \in BOOLEAN : \E c \in CalInputs : can_calibrate(mark, c)
    \/ \E fname \in FileNames : from_match_file(fname)
    \/ \E backend \in SyncObjects : \E c \in SyncCats : sync_backend_to_params(backend, c)
    \/ \E t \in EditTargets : \E v \in EditValues : EditValue(t[1], t[2], v)

Spec == Init /\ [][Next]_vars

\* the test bench of CVParameter alone
InitParam ==
    /\ lib = "full"
    /\ cur = EmptyReg.cur
    /\ p = EmptyReg.p
    /\ written = NoFile
    /\ saved = NoReg
    /\ edited = FALSE
    /\ op = "init"
    /\ err = "ok"
    /\ synced = <<>>
    /\ hargs \in HArgs
    /\ hobj = Raised("none")
    /\ htext = NoText
    /\ hdec = Raised("none")
    /\ hpc = "args"

SpecParam == InitParam /\ [][NextParam]_vars

(***************************************************************************)
(* Persistence round trip: build a registry, to_match_file, construct a    *)
(* fresh CVEqualizer, from_match_file of the file just written.            *)
(***************************************************************************)
\* to_match_file: get_backend raises before the file is opened
to_match_file ==
    /\ op' = "to_match_file"
    /\ synced' = <<>>
    /\ IF \E c \in Categories : GetBackendErr(Reg, c) # "ok"
       THEN err' = "KeyError" /\ UNCHANGED <<written, saved>>
       ELSE err' = "ok" /\ written' = ToFile(Reg) /\ saved' = Reg
    /\ UNCHANGED <<cur, p, lib, edited>>
    /\ UNCHANGED hvars

\* the program replaces its registry by a new CVEqualizer(backend)
Construct(backend) ==
    /\ op' = "construct"
    /\ \E r \in {Constructed(lib, backend)} : r.err = "ok" /\ Result(r)
    /\ UNCHANGED <<lib, written, saved, edited>>
    /\ UNCHANGED hvars

FreshBackends == {NoName, "hybrid", "template"}

Build ==
    \/ \E c \in CatInputs : \E value \in AlgInputs(c) : set_backend(c, value)
    \/ \E args \in ConfInputs : configure_backend(args)
    \/ \E mark \in BOOLEAN : \E c \in CalInputs : can_calibrate(mark, c)
    \/ \E fname \in FileNames : from_match_file(fname)
    \/ \E t \in EditTargets : \E v \in EditValues : EditValue(t[1], t[2], v)

\* the steps of the round trip, in their order
BuildStep == ~written.exists /\ Build
SaveStep == ~written.exists /\ to_match_file
FreshStep == op = "to_match_file" /\ err = "ok" /\ \E b \in FreshBackends : Construct(b)
LoadStep == op = "construct" /\ from_match_file("out")

NextRT == BuildStep \/ SaveStep \/ FreshStep \/ LoadStep

SpecRT == Init /\ [][NextRT]_vars

(***************************************************************************)
(* Default generation: set_backend and configure_backend over the whole    *)
(* catalog of find and fmatch, and over names _new_params knows but the    *)
(* catalog does not hold.                                                  *)
(***************************************************************************)
GenCats == {"find", "fmatch", "fdetect", "fextract"}

GenAlgs(c) ==
    CASE c = "find" -> {"autopy", "template", "feature", "hybrid", "2to1hybrid"}
      [] c = "fmatch" -> {"BruteForce", "BruteForce-L1", "BruteForce-Hamming",
                          "BruteForce-Hamming(2)", "in-house-raw", "in-house-region"}
      [] c = "fdetect" -> {"ORB", "oldSURF"}
      [] OTHER -> {"ORB"}

GenConfInputs ==
    {ConfArgs("feature", NoName, NoName, NoName, "BruteForce"),
     ConfArgs(NoName, NoName, "ORB", NoName, "in-house-region")}

\* category keys that are none of the five
BadCats == {"nocat"}
GenCalCats == {"find"}

NextGen ==
    \/ \E c \in GenCats : \E value \in GenAlgs(c) : set_backend(c, value)
    \/ \E c \in BadCats : set_backend(c, "ORB")
    \/ \E c \in BadCats \cup {"find"} : get_backend(c)
    \/ \E mark \in BOOLEAN : \E c \in BadCats \cup GenCalCats : can_calibrate(mark, c)
    \/ \E args \in GenConfInputs : configure_backend(args)
    \/ \E t \in EditTargets : \E v \in EditValues : EditValue(t[1], t[2], v)

SpecGen == Init /\ [][NextGen]_vars

(***************************************************************************)
(* Loading: from_match_file over every match file, between switches and    *)
(* edits.                                                                  *)
(***************************************************************************)
LoadCatInputs == {"find", "fmatch"}

LoadAlgs(c) ==
    IF c = "find" THEN {"hybrid", "template"} ELSE {"BruteForce", "BruteForce-Hamming"}

NextLoad ==
    \/ \E c \in LoadCatInputs : \E value \in LoadAlgs(c) : set_backend(c, value)
    \/ \E t \in EditTargets : \E v \in EditValues : EditValue(t[1], t[2], v)
    \/ \E fname \in LoadNames : from_match_file(fname)

SpecLoad == Init /\ [][NextLoad]_vars

(***************************************************************************)
(* Properties.                                                             *)
(***************************************************************************)
\* equality of two parameters on value, range, delta, tolerance and fixed
SamePar(a, b) ==
    /\ PyEq(a.value, b.value)
    /\ PyEq(a.min, b.min)
    /\ PyEq(a.max, b.max)
    /\ PyEq(a.delta, b.delta)
    /\ PyEq(a.tolerance, b.tolerance)
    /\ PyEq(a.fixed, b.fixed)

\* C1: for every parameter p that the constructor accepts,
\* from_string(repr(p)) succeeds and equals p on all five fields, negative
\* values and bounds included.
C1_RoundTrip ==
    hpc = "decoded" => hdec.err = "ok" /\ SamePar(hdec.par, hobj.par)

\* the part of C1 the code does satisfy: no negative value or bound
NonNegative(par) == par.value.n >= 0 /\ par.min.n >= 0 /\ par.max.n >= 0
C1_RoundTripNonNegative ==
    hpc = "decoded" /\ NonNegative(hobj.par)
        => hdec.err = "ok" /\ SamePar(hdec.par, hobj.par)

\* delta and tolerance of a parameter as the constructor forces them, d and
\* t being the ones supplied
Forced(par, d, t) ==
    /\ par.value.t = "bool" => PyEq(par.delta, VInt(0)) /\ PyEq(par.tolerance, VInt(1))
    /\ par.value.t = "int" => PyEq(par.delta, VInt(1)) /\ PyEq(par.tolerance, Dec(9, 10))
    /\ par.value.t = "float" => par.delta = d /\ par.tolerance = t

\* C9: a constructed or decoded parameter with a bool value has delta 0 and
\* tolerance 1, with an int value delta 1 and tolerance 0.9, whatever was
\* supplied or stored; with a float value it keeps what was supplied or stored.
C9_ForcedCoercion ==
    /\ hpc \in {"built", "encoded", "decoded"} /\ hobj.err = "ok"
         => Forced(hobj.par, hargs.delta, hargs.tolerance)
    /\ hpc \in {"decoded", "decodedstored"} /\ hdec.err = "ok"
         => Forced(hdec.par, ConvertArg(htext.delta), ConvertArg(htext.tolerance))

\* a stored text with a bool or int value and another delta than the forced
\* one has been decoded
C9_Witness ==
    /\ hpc = "decodedstored"
    /\ hdec.err = "ok"
    /\ hdec.par.value.t = "int"
    /\ ~PyEq(ConvertArg(htext.delta), VInt(1))
    /\ ~PyEq(ConvertArg(htext.tolerance), Dec(9, 10))

\* every parameter of the registry is inside its range
InRange(par) ==
    /\ par.min.t # "none" => PyGE(par.value, par.min)
    /\ par.max.t # "none" => PyLE(par.value, par.max)

\* the text decodes to six values of which the first is below the min or above
\* the max
OutOfRangeText(text) ==
    LET a == [f \in DOMAIN text |-> ConvertArg(text[f])]
    IN  /\ ReMatch(text)
        /\ \A f \in DOMAIN text : a[f] # Bad
        /\ \/ a.min.t # "none" /\ ~PyGE(a.value, a.min)
           \/ a.max.t # "none" /\ ~PyLE(a.value, a.max)

\* the texts of the match files on disk
EnvTexts ==
    {EnvFile(f).sections[i].opts[k].text :
        <<f, i, k>> \in {x \in FileNames \X (1..5) \X (1..5) :
                           /\ x[2] <= Len(EnvFile(x[1]).sections)
                           /\ x[3] <= Len(EnvFile(x[1]).sections[x[2]].opts)}}

\* the names the selected algorithm of category c defines at regeneration
DefinedNames(c) == Names(NewParams(lib, c, BackendName(Reg, c)).m)

\* C3: in every reachable state the parameter names of a category are exactly
\* the names its selected algorithm defines at regeneration.
C3_NamesMatchSelection ==
    \A c \in Categories : cur[c] # NoSel => Names(p[c]) = DefinedNames(c)

\* C4: a successful set_backend(c, a) leaves as the mapping of c exactly the
\* default mapping of a (default values, every parameter fixed), whatever was
\* edited in c or added to c by a load before.
C4_SwitchResets ==
    [][\A c \in CatInputs : \A a \in AlgInputs(c) :
          set_backend(c, a) /\ err' = "ok"
            => /\ p'[c] = NewParams(lib, c, a).m
               /\ \A i \in 1..Len(p'[c]) : p'[c][i].par.fixed = True
               /\ c = "find" => DictGet(p'[c], "similarity").value = Dec(9, 10)
               /\ c = "find" => "contrast" \notin Names(p'[c])]_vars

\* a value was edited and a successful set_backend has brought back the default
C4_Witness ==
    /\ op = "set_backend"
    /\ err = "ok"
    /\ edited
    /\ DictGet(p["find"], "similarity").value = Dec(9, 10)
    /\ "nFeatures" \in Names(p["fextract"])
         => DictGet(p["fextract"], "nFeatures").value = VInt(500)

\* C5: set_backend(c, name) with a name outside c's catalog raises
\* ImageFinderMethodError and changes no selection and no mapping.
C5_UnsupportedRejected ==
    [][\A c \in CatInputs : \A a \in AlgInputs(c) :
          set_backend(c, a) /\ ~InCatalog(c, a)
            => err' = "ImageFinderMethodError" /\ cur' = cur /\ p' = p]_vars

\* an unsupported name was rejected on a registry holding an edited value
C5_Witness ==
    /\ op = "set_backend"
    /\ err = "ImageFinderMethodError"
    /\ DictGet(p["find"], "similarity").value = Dec(1, 2)

\* C6: a configure_backend call that fails on an unsupported name changes no
\* category, the ones given a valid name earlier in the argument order included.
C6_ConfigureNoPartialMutation ==
    [][\A args \in ConfInputs :
          configure_backend(args) /\ err' = "ImageFinderMethodError"
            => cur' = cur /\ p' = p]_vars

\* C7: a successful configure_backend changes only the categories given a
\* name, a successful set_backend(c, a) only c.
C7_CategoryIndependence ==
    [][/\ \A args \in ConfInputs :
            configure_backend(args) /\ err' = "ok"
              => \A c \in Categories :
                    args[c] = NoName => cur'[c] = cur[c] /\ p'[c] = p[c]
       /\ \A c \in CatInputs : \A a \in AlgInputs(c) :
            set_backend(c, a) /\ err' = "ok"
              => \A d \in Categories \ {c} : cur'[d] = cur[d] /\ p'[d] = p[d]]_vars

\* a configure_backend succeeded on a registry whose fextract, which no
\* argument list names, holds a parameter released for calibration
C7_Witness ==
    /\ op = "configure_backend"
    /\ err = "ok"
    /\ \E i \in 1..Len(p["fextract"]) : p["fextract"][i].par.fixed = False

\* C8: after can_calibrate(mark, "fextract") the parameter named "bytes" of
\* fextract is fixed, and every other parameter has fixed = not mark.
C8_BytesStaysFixed ==
    op = "can_calibrate" /\ err = "ok" /\ "bytes" \in Names(p["fextract"])
        => DictGet(p["fextract"], "bytes").fixed = True

\* C10: a text or a discovered value outside its range gives no parameter,
\* and every parameter of the registry is inside its range.
C10_Bounds ==
    /\ \A text \in EnvTexts : OutOfRangeText(text) => from_string(text).err # "ok"
    /\ \A a \in {"ORB", "BRISK", "KAZE"} : \A i \in 1..Len(Dir(lib, a)) :
          LET r == Discovered("fextract", Dir(lib, a)[i].param, Dir(lib, a)[i].val)
          IN  r.err = "ok" => InRange(r.par)
    /\ \A c \in Categories : \A i \in 1..Len(p[c]) : InRange(p[c][i].par)

\* a load has met a text whose value is above its max and has failed
C10_Witness ==
    /\ op = "from_match_file"
    /\ err = "AssertionError"
    /\ \E text \in EnvTexts : OutOfRangeText(text)
    /\ DictGet(p["fmatch"], "ratioTest").value = True
    /\ DictGet(p["fmatch"], "ratioThreshold").value = Dec(65, 100)

\* two mappings with the same keys and, key by key, the same parameter
SameMapping(m1, m2) ==
    /\ Names(m1) = Names(m2)
    /\ \A name \in Names(m1) : SamePar(DictGet(m1, name), DictGet(m2, name))

\* no regeneration of R was cut short: R holds what its selections define
Regenerated(st) ==
    \A c \in Categories :
        Names(NewParams(lib, c, BackendName(st, c)).m) \subseteq Names(st.p[c])

\* the round trip has run: the file of R was loaded into a fresh registry
\* that was constructed with a backend
RoundTripRun ==
    /\ op = "from_match_file"
    /\ written.exists
    /\ \A c \in Categories : cur[c] # NoSel
    /\ Regenerated(saved)

\* R holds no negative value
NoNegative(st) ==
    \A c \in Categories : \A i \in 1..Len(st.p[c]) : NonNegative(st.p[c][i].par)

\* C2: after to_match_file on R and from_match_file of that file on a fresh
\* registry (constructed with a backend), every category has R's selection and
\* a mapping with R's keys and R's value, range, delta, tolerance and fixed.
C2_PersistenceRoundTrip ==
    RoundTripRun
    => /\ err = "ok"
       /\ cur = saved.cur
       /\ \A c \in Categories : SameMapping(p[c], saved.p[c])

\* the part of C2 the code does satisfy: R holds no negative value
C2_RoundTripNonNegative ==
    RoundTripRun /\ NoNegative(saved)
    => /\ err = "ok"
       /\ cur = saved.cur
       /\ \A c \in Categories : SameMapping(p[c], saved.p[c])

\* the find_methods catalog as the claim lists it
FindMethods == {"autopy", "template", "feature", "hybrid"}

ExpectedFindNames(a) ==
    CASE a = "autopy" -> {"similarity"}
      [] a = "template" -> {"similarity", "nocolor"}
      [] a = "feature" -> {"similarity", "ransacReprojThreshold"}
      [] OTHER -> {"similarity", "ransacReprojThreshold", "nocolor", "front_similarity"}

\* if mapping m holds name, it holds it with this value and range
HasDefault(m, name, value, min_val, max_val) ==
    name \in Names(m)
        => /\ DictGet(m, name).value = value
           /\ DictGet(m, name).min = min_val
           /\ DictGet(m, name).max = max_val

\* C11: set_backend("find", a) succeeds for each of the four find methods and
\* leaves as the find mapping exactly the names the claim lists for a, with
\* similarity = 0.9 in [0,1], ransacReprojThreshold = 0.0 in [0,200],
\* nocolor = False and front_similarity = 0.8 in [0,1].
C11_FindDefaults ==
    [][\A a \in FindMethods :
          set_backend("find", a)
            => /\ err' = "ok"
               /\ Names(p'["find"]) = ExpectedFindNames(a)
               /\ HasDefault(p'["find"], "similarity", Dec(9, 10), Dec(0, 1), Dec(1, 1))
               /\ HasDefault(p'["find"], "ransacReprojThreshold",
                             Dec(0, 1), Dec(0, 1), Dec(200, 1))
               /\ HasDefault(p'["find"], "nocolor", False, None, None)
               /\ HasDefault(p'["find"], "front_similarity",
                             Dec(8, 10), Dec(0, 1), Dec(1, 1))]_vars

\* find was switched to feature on a registry whose similarity had been edited
C11_Witness ==
    /\ op = "set_backend"
    /\ err = "ok"
    /\ edited
    /\ BackendName(Reg, "find") = "feature"
    /\ Names(p["find"]) = {"similarity", "ransacReprojThreshold"}

\* C12: a load that meets a text outside the grammar (garbled.match: key
\* nocolor of section find) fails instead of skipping the key; the later key
\* extra of that section and the later section fextract are not applied.
C12_MalformedFailsFast ==
    [][from_match_file("garbled")
         => /\ err' = "AttributeError"
            /\ "extra" \notin Names(p'["find"])
            /\ cur'["fextract"] = cur["fextract"]
            /\ p'["fextract"] = p["fextract"]]_vars

\* the load of garbled.match has failed on a registry that would have kept
\* neither a default nocolor nor its fextract had the load gone on
C12_Witness ==
    /\ op = "from_match_file"
    /\ err = "AttributeError"
    /\ BackendName(Reg, "find") = "template"
    /\ DictGet(p["find"], "similarity").value = Dec(1, 2)
    /\ BackendName(Reg, "fextract") = "ORB"

\* C13: get_backend, set_backend and can_calibrate on a category key that is
\* none of the five raise the typed error (ImageFinderMethodError) and change
\* no selection and no mapping; can_calibrate on a known category succeeds.
C13_InvalidCategory ==
    [][/\ \A c \in BadCats :
            \/ get_backend(c)
            \/ set_backend(c, "ORB")
            \/ \E mark \in BOOLEAN : can_calibrate(mark, c)
            => err' = "ImageFinderMethodError" /\ cur' = cur /\ p' = p
       /\ \A c \in GenCalCats : \A mark \in BOOLEAN :
            can_calibrate(mark, c) => err' = "ok"]_vars

\* C14: from_match_file on a name without a match file raises IOError and
\* changes no selection and no mapping.
C14_ResourceNotFound ==
    [][from_match_file("missing")
         => err' = "IOError" /\ cur' = cur /\ p' = p]_vars

\* the load of a missing file has failed on a registry that differs from the
\* constructed one
C14_Witness ==
    /\ op = "from_match_file"
    /\ err = "IOError"
    /\ edited
    /\ BackendName(Reg, "find") = "template"

\* the keys of a section other than backend
OptKeys(sec) == {sec.opts[k].key : k \in 1..Len(sec.opts)}
OptText(sec, key) == sec.opts[CHOOSE k \in 1..Len(sec.opts) : sec.opts[k].key = key].text

\* mapping m is mapping base overridden by the decoded keys of section sec
Overridden(m, base, sec) ==
    /\ Names(m) = Names(base) \cup OptKeys(sec)
    /\ \A key \in OptKeys(sec) : DictGet(m, key) = from_string(OptText(sec, key)).par
    /\ \A name \in Names(base) \ OptKeys(sec) : DictGet(m, name) = DictGet(base, name)

\* what a successful load of file f does to category c
LoadedSection(f, c) ==
    IF ~HasSection(f, c) THEN cur'[c] = cur[c] /\ p'[c] = p[c]
    ELSE /\ cur'[c] = IndexOf(c, SectionOf(f, c).backend)
         /\ Overridden(p'[c],
                       IF SectionOf(f, c).backend # BackendName(Reg, c)
                       THEN NewParams(lib, c, SectionOf(f, c).backend).m
                       ELSE p[c],
                       SectionOf(f, c))

\* C15: after a successful from_match_file every category with a section has
\* the stored backend selected and, as its mapping, the regenerated defaults
\* of that backend (if it differed from the selection) or the prior mapping
\* (if it was the same), overridden by the decoded keys of the section, absent
\* keys added; every category without a section is unchanged.
C15_LoadSemantics ==
    [][\A fname \in LoadNames :
          from_match_file(fname) /\ err' = "ok"
            => \A c \in Categories : LoadedSection(EnvFile(fname), c)]_vars

\* a load has succeeded that kept an edited nFeatures beside the key it added,
\* on a registry where an earlier load had switched fmatch
C15_Witness ==
    /\ op = "from_match_file"
    /\ err = "ok"
    /\ {"nFeatures", "bytes"} \subseteq Names(p["fextract"])
    /\ DictGet(p["fextract"], "nFeatures").value = VInt(-1)
    /\ DictGet(p["fextract"], "bytes").value = VInt(32)
    /\ BackendName(Reg, "fmatch") = "BruteForce"
    /\ {"ratioThreshold", "crossCheck"} \subseteq Names(p["fmatch"])
    /\ DictGet(p["fmatch"], "ratioThreshold").value = Dec(1, 2)

\* the categories and selections for which a push writes nothing
PushExcluded(c) ==
    \/ c \in {"find", "tmatch", "fmatch"}
    \/ c = "fdetect" /\ BackendName(Reg, c) = "oldSURF"

\* the attributes of an object that are keys of mapping m and have a getter
\* and a setter, each with the current value of its parameter
Pushable(m, attrs) ==
    {[name |-> attrs[i].param, val |-> DictGet(m, attrs[i].param).value] :
        i \in {j \in 1..Len(attrs) :
                  attrs[j].get /\ attrs[j].setter /\ attrs[j].param \in Names(m)}}

\* C16: sync_backend_to_params writes nothing for find, tmatch, fmatch and
\* for fdetect with oldSURF selected; otherwise it writes exactly the
\* attributes that are keys of the category's mapping and have a getter and a
\* setter, each once and to the parameter's current value; the registry is
\* the same after it as before.
C16_PushEffectAndFrame ==
    [][\A backend \in SyncObjects : \A c \in SyncCats :
          sync_backend_to_params(backend, c)
            => /\ err' = "ok"
               /\ cur' = cur
               /\ p' = p
               /\ IF PushExcluded(c) THEN synced' = <<>>
                  ELSE /\ {synced'[i] : i \in 1..Len(synced')}
                            = Pushable(p[c], Dir(lib, backend))
                       /\ Len(synced') = Cardinality(Pushable(p[c], Dir(lib, backend)))]_vars

\* a BRISK object was pushed the parameters of fextract with BRISK selected:
\* bytes was written, Octaves (a key with a getter and no setter) was not
C16_Witness ==
    /\ op = "sync_backend_to_params"
    /\ err = "ok"
    /\ BackendName(Reg, "fextract") = "BRISK"
    /\ "Octaves" \in Names(p["fextract"])
    /\ \E i \in 1..Len(synced) : synced[i].name = "bytes"
    /\ \A i \in 1..Len(synced) : synced[i].name # "Octaves"

\* the categories whose parameters are discovered on an external object
DiscoveryCats == {"fdetect", "fextract"}

\* parameter par has calibration step 100 and no bounds
FeatureCountStep(par) ==
    /\ PyEq(par.delta, VInt(100))
    /\ par.min = None
    /\ par.max = None

\* C17: the parameter that set_backend discovers for the attribute nFeatures
\* of an fdetect or fextract object, its value an integer, has delta = 100
\* and neither a minimum nor a maximum.
C17_FeatureCountStep ==
    [][\A c \in DiscoveryCats :
          /\ set_backend(c, "ORB")
          /\ err' = "ok"
          /\ "nFeatures" \in Names(p'[c])
          /\ DictGet(p'[c], "nFeatures").value.t = "int"
          => FeatureCountStep(DictGet(p'[c], "nFeatures"))]_vars

\* the feature_matchers catalog
FeatureMatchers == {"BruteForce", "BruteForce-L1", "BruteForce-Hamming",
                    "BruteForce-Hamming(2)"}

\* the names only the in-house-region variant defines
RegionNames == {"refinements", "recalc_interval", "variants_k", "variants_ratio"}

\* mapping m is {ratioThreshold = 0.65 in [0,1], ratioTest = False,
\* symmetryTest = False}
FmatchDefaults(m) ==
    /\ Len(m) = 3
    /\ Names(m) = {"ratioThreshold", "ratioTest", "symmetryTest"}
    /\ HasDefault(m, "ratioThreshold", Dec(65, 100), Dec(0, 1), Dec(1, 1))
    /\ HasDefault(m, "ratioTest", False, None, None)
    /\ HasDefault(m, "symmetryTest", False, None, None)

\* the fmatch selection is a catalog member and its mapping is neither empty
\* nor one with the in-house-region names
FmatchInCatalog ==
    /\ cur["fmatch"] # NoSel
    /\ BackendName(Reg, "fmatch") \in FeatureMatchers
    /\ Names(p["fmatch"]) # {}
    /\ Names(p["fmatch"]) \cap RegionNames = {}

\* C18: set_backend("fmatch", a) for a catalog algorithm a succeeds and leaves
\* the fmatch mapping exactly {ratioThreshold = 0.65 in [0,1], ratioTest =
\* False, symmetryTest = False}, whatever the cv2 library offers; and no run
\* of set_backend and configure_backend calls selects an fmatch algorithm
\* outside the catalog, one without parameters or one with refinements,
\* recalc_interval, variants_k or variants_ratio.
C18_FmatchDefaults ==
    /\ []FmatchInCatalog
    /\ [][\A a \in FeatureMatchers :
             set_backend("fmatch", a)
               => err' = "ok" /\ cur'["fmatch"] = IndexOf("fmatch", a)
                  /\ FmatchDefaults(p'["fmatch"])]_vars

\* BruteForce-L1 has just been selected and fmatch holds its three defaults
C18_Witness ==
    /\ op = "set_backend"
    /\ err = "ok"
    /\ BackendName(Reg, "fmatch") = "BruteForce-L1"
    /\ Len(p["fmatch"]) = 3

\* C19: a set_backend(c, a) call that fails, for whatever reason, leaves the
\* selection and the parameter mapping of c as they were before the call.
C19_SetBackendAllOrNothing ==
    [][\A c \in CatInputs : \A value \in AlgInputs(c) :
          set_backend(c, value) /\ err' # "ok"
            => cur'[c] = cur[c] /\ p'[c] = p[c]]_vars

\* every category other than those of set cs is as it was
OthersKept(cs) ==
    \A c \in Categories \ cs : cur'[c] = cur[c] /\ p'[c] = p[c]

\* the find mapping the load of "garbled" starts from: the regenerated
\* defaults of template unless template was the selection already
GarbledBase ==
    IF BackendName(Reg, "find") # "template"
    THEN NewParams(lib, "find", "template").m
    ELSE p["find"]

\* the load of "garbled" (find: backend template, a good similarity, a
\* malformed nocolor, a good extra) has stopped at nocolor
GarbledStopped ==
    /\ err' = "AttributeError"
    /\ cur'["find"] = IndexOf("find", "template")
    /\ Names(p'["find"]) = Names(GarbledBase)
    /\ DictGet(p'["find"], "similarity").value = Dec(1, 2)
    /\ \A name \in Names(GarbledBase) \ {"similarity"} :
          DictGet(p'["find"], name) = DictGet(GarbledBase, name)
    /\ OthersKept({"find"})

\* the load of "alien" (tmatch: backend sqdiff; fmatch: a backend outside the
\* catalog) has stopped at fmatch
AlienStopped ==
    /\ err' = "ImageFinderMethodError"
    /\ cur'["tmatch"] = IndexOf("tmatch", "sqdiff")
    /\ p'["tmatch"] = <<>>
    /\ OthersKept({"tmatch"})

\* C20: a from_match_file that fails on a section is not rolled back: the
\* categories processed before the failing one keep the selection and the
\* parameters the load gave them, and the failing category keeps the reset to
\* the stored backend and the keys decoded before the bad one (nothing of it
\* changes when the stored backend is outside the catalog).
C20_FailingLoadNotRolledBack ==
    [][/\ from_match_file("garbled") => GarbledStopped
       /\ from_match_file("alien") => AlienStopped]_vars

\* a load has failed on the malformed text and left find on template with
\* the similarity decoded before it, on a registry whose tmatch an earlier
\* failed load had switched
C20_Witness ==
    /\ op = "from_match_file"
    /\ err = "AttributeError"
    /\ BackendName(Reg, "find") = "template"
    /\ "similarity" \in Names(p["find"])
    /\ DictGet(p["find"], "similarity").value = Dec(1, 2)
    /\ "front_similarity" \notin Names(p["find"])
    /\ BackendName(Reg, "tmatch") = "sqdiff"
    /\ edited

(***************************************************************************)
(* Selection: a registry constructed with or without a backend, then the   *)
(* calls that read, make or store a selection, up to the first file        *)
(* written.                                                                *)
(***************************************************************************)
SelAlgs(c) ==
    CASE c = "find" -> {"template", "bogus"}
      [] c = "tmatch" -> {"sqdiff"}
      [] c = "fdetect" -> {"oldSURF"}
      [] c = "fextract" -> {"ORB", "KAZE"}
      [] OTHER -> {"BruteForce"}

SelFiles == {"tuned", "switch", "missing"}

SelConfInputs ==
    {ConfArgs(NoName, "sqdiff", "oldSURF", NoName, NoName),
     ConfArgs("template", "bogus", NoName, NoName, NoName)}

InitSel ==
    /\ lib \in Libs
    /\ \E b \in FreshBackends : \E r \in {Constructed(lib, b)} :
         /\ r.err = "ok"
         /\ cur = r.cur
         /\ p = r.p
    /\ written = NoFile
    /\ saved = NoReg
    /\ edited = FALSE
    /\ op = "init"
    /\ err = "ok"
    /\ synced = <<>>
    /\ HIdle

CallSel ==
    \/ \E c \in Categories : \E value \in SelAlgs(c) : set_backend(c, value)
    \/ \E args \in SelConfInputs : configure_backend(args)
    \/ \E c \in Categories : get_backend(c)
    \/ \E fname \in SelFiles : from_match_file(fname)
    \/ to_match_file

NextSel == ~written.exists /\ CallSel

SpecSel == InitSel /\ [][NextSel]_vars

\* the known categories without a selected algorithm
Unselected == {c \in Categories : cur[c] = NoSel}

\* a freshly constructed registry is empty (no backend given) or has a
\* selection for each of the five categories
FreshRegistry ==
    op = "init" => \/ cur = EmptyReg.cur /\ p = EmptyReg.p
                   \/ Unselected = {}

\* category c gets its selection in this step
Gains(c) == cur[c] = NoSel /\ cur'[c] # NoSel

\* selections come from successful set_backend calls only, and are kept
SelectionBySetBackend ==
    /\ \A c \in Categories : cur[c] # NoSel => cur'[c] # NoSel
    /\ \A c \in Categories : \A value \in SelAlgs(c) :
          set_backend(c, value)
            => \A d \in Categories :
                  Gains(d) => d = c /\ err' = "ok" /\ InCatalog(c, value)
                              /\ cur'[c] = IndexOf(c, value)
    /\ \A args \in SelConfInputs :
          configure_backend(args)
            => \A d \in Categories :
                  Gains(d) => args[d] # NoName /\ InCatalog(d, args[d])
                              /\ cur'[d] = IndexOf(d, args[d])
    /\ op' \in {"get_backend", "from_match_file", "to_match_file"}
          => \A d \in Categories : ~Gains(d)

\* what the calls do while a category has no selection
FailsUnselected ==
    /\ \A c \in Unselected :
          get_backend(c) => err' # "ok" /\ cur' = cur /\ p' = p
    /\ Unselected # {} /\ op' = "to_match_file"
          => err' # "ok" /\ written' = written /\ cur' = cur /\ p' = p
    /\ \A fname \in SelFiles :
          /\ \E c \in Unselected : HasSection(EnvFile(fname), c)
          /\ from_match_file(fname)
          => err' # "ok"

\* C21: a registry constructed without a backend has no selection and an
\* empty mapping for all five categories; a category gains a selection only
\* through a successful set_backend and never loses it; while a category has
\* no selection, get_backend for it fails, to_match_file fails and writes no
\* file, and from_match_file fails for a file with a section for it; a
\* registry constructed with a backend has all five selections in every
\* state it reaches.
C21_SelectionRequired ==
    /\ []FreshRegistry
    /\ [][SelectionBySetBackend /\ FailsUnselected]_vars

\* to_match_file has failed, no file written, on a registry that was built
\* without a backend and has since selected find and tmatch only
C21_Witness ==
    /\ op = "to_match_file"
    /\ err = "KeyError"
    /\ ~written.exists
    /\ Unselected = {"fdetect", "fextract", "fmatch"}
    /\ BackendName(Reg, "find") = "template"

====
